---- MODULE Spec2Model ----
(***************************************************************************)
(* Model of elm-test-rs, src/run.rs: the compile-generate-patch-handoff    *)
(* pipeline of `main`, and its helpers wait_child, compile,                *)
(* add_kernel_test_checking, get_module_name and is_upper_name.            *)
(*                                                                         *)
(* Text is modelled as sequences of one-character strings wherever the    *)
(* code looks inside it (path components); the compiled JavaScript is a   *)
(* sequence of lexical tokens.  Paths are sequences of components, as     *)
(* std::path::Path compares them.                                          *)
(***************************************************************************)
EXTENDS Integers, Sequences, FiniteSets, TLC

VARIABLES
    options,                \* Options: help, version, report, files
    disk,                   \* the test source files that exist on disk
    source_directories,     \* "source-directories" of the host elm.json
    pc,                     \* position of main
    outcome,                \* how the process ended, "running" before that
    log,                    \* the effects main has had, in order
    module_paths,           \* HashSet<PathBuf> of line 75, as the sequence
                            \* its iterator yields
    test_directories,       \* Vec<PathBuf> of line 106
    elm_json_tests,         \* the in-memory generated configuration
    output,                 \* Output of the elm-json subprocess (line 144)
    generated,              \* files written under tests_root: name -> content
    all_modules_and_tests,  \* result of parser::all_tests (line 182)
    supervisor,             \* the node child process and its stdin
    exit_code,              \* Option<i32> returned by wait_child
    call,                   \* harness: the helper under test and its arguments
    ret                     \* harness: what the helper returned

vars == <<options, disk, source_directories, pc, outcome, log, module_paths,
          test_directories, elm_json_tests, output, generated,
          all_modules_and_tests, supervisor, exit_code, call, ret>>

pipeline_vars == <<options, disk, source_directories, pc, outcome, log,
                   module_paths, test_directories, elm_json_tests, output,
                   generated, all_modules_and_tests, supervisor, exit_code>>

harness_vars == <<call, ret>>

(***************************************************************************)
(* Bounds of the model.                                                    *)
(***************************************************************************)
\* pieces a generated file name is concatenated from
MaxPieces == 4
\* source roots handed to get_module_name
MaxRoots == 2
\* chunks of compiled JavaScript handed to add_kernel_test_checking
MaxChunks == 3
\* test files on disk in a pipeline run
MaxFiles == 2

(***************************************************************************)
(* Sequences and text.                                                     *)
(***************************************************************************)
Range(s) == {s[i] : i \in DOMAIN s}

Option_None == [some |-> FALSE]

Option_Some(v) == [some |-> TRUE, value |-> v]

\* all sequences over S of length 1..n
SeqsUpTo(S, n) == UNION {[1..k -> S] : k \in 1..n}

\* all sequences over S of length 0..n
SeqsFrom0(S, n) == UNION {[1..k -> S] : k \in 0..n}

RECURSIVE Concat(_)
\* the concatenation of a sequence of sequences
Concat(ss) == IF ss = <<>> THEN <<>> ELSE Head(ss) \o Concat(Tail(ss))

RECURSIVE Join(_, _)
\* [T]::join(sep) of line 417 and line 374
Join(parts, sep) ==
    IF parts = <<>> THEN <<>>
    ELSE IF Len(parts) = 1 THEN parts[1]
    ELSE parts[1] \o sep \o Join(Tail(parts), sep)

StartsWithSeq(s, p) == Len(p) <= Len(s) /\ SubSeq(s, 1, Len(p)) = p

EndsWithSeq(s, p) ==
    Len(p) <= Len(s) /\ SubSeq(s, Len(s) - Len(p) + 1, Len(s)) = p

RECURSIVE Replace(_, _, _)
\* str::replace(from, to): every non-overlapping occurrence, left to right,
\* in one pass (the replacement text is not scanned again)
Replace(s, from, to) ==
    IF Len(s) < Len(from) THEN s
    ELSE IF SubSeq(s, 1, Len(from)) = from
         THEN to \o Replace(SubSeq(s, Len(from) + 1, Len(s)), from, to)
         ELSE <<Head(s)>> \o Replace(Tail(s), from, to)

DotElm == <<".", "e", "l", "m">>

Dot == <<".">>

\* character classes of the UPPER_NAME regex (line 422), over the characters
\* the model uses
Lu == {"A", "B", "C", "R", "S", "T"}

Ll == {"a", "b", "c", "e", "l", "m", "p", "q", "r", "s", "t", "u"}

Nd == {"1"}

\* ^\p{Lu}[_\d\p{L}]*$
is_upper_name(s) ==
    /\ Len(s) >= 1
    /\ s[1] \in Lu
    /\ \A i \in 2..Len(s) : s[i] \in {"_"} \cup Nd \cup Lu \cup Ll

(***************************************************************************)
(* Paths.  A canonical absolute path is the sequence of its Normal         *)
(* components below the filesystem root.                                   *)
(***************************************************************************)
\* Path::starts_with: whole components only
starts_with(path, base) == StartsWithSeq(path, base)

\* Path::strip_prefix(base).unwrap()
strip_prefix(path, base) == SubSeq(path, Len(base) + 1, Len(path))

(***************************************************************************)
(* get_module_name, lines 377-418.  A result is [ok |-> TRUE, value |-> n] *)
(* or [ok |-> FALSE, panic |-> message].                                   *)
(***************************************************************************)
Returned(v) == [ok |-> TRUE, value |-> v]

Panicked(msg) == [ok |-> FALSE, panic |-> msg]

\* faulty variant of matching_source_dir: the first matching root is taken,
\* the other matches are never looked at
matching_source_dir_first(source_dirs, test_file) ==
    LET matching == SelectSeq(source_dirs,
                              LAMBDA dir : starts_with(test_file, dir))
    IN  IF matching # <<>> THEN Returned(Head(matching))
        ELSE Panicked("matches no source directory")

\* lines 381-400
matching_source_dir(source_dirs, test_file) ==
    LET matching_dir_iter == SelectSeq(source_dirs,
                                 LAMBDA dir : starts_with(test_file, dir))
    IN  IF matching_dir_iter # <<>>
        THEN LET extra == Tail(matching_dir_iter)
             IN  IF extra # <<>> THEN Panicked("2+ matching source dirs")
                 ELSE Returned(Head(matching_dir_iter))
        ELSE Panicked("matches no source directory")

\* lines 404-413: every component below the root, with every ".elm" in it
\* replaced by nothing
module_name_parts(test_file, dir) ==
    LET below == strip_prefix(test_file, dir)
    IN  [i \in DOMAIN below |-> Replace(below[i], DotElm, <<>>)]

\* lines 377-418
get_module_name(source_dirs, test_file) ==
    LET m == matching_source_dir(source_dirs, test_file)
    IN  IF ~m.ok THEN m
        ELSE LET parts == module_name_parts(test_file, m.value)
             IN  IF ~(\A i \in DOMAIN parts : is_upper_name(parts[i]))
                 THEN Panicked("assertion failed: is_upper_name")
                 ELSE IF parts = <<>>
                 THEN Panicked("assertion failed: !is_empty")
                 ELSE Returned(Join(parts, Dot))

(***************************************************************************)
(* Inputs of get_module_name.                                              *)
(***************************************************************************)
ProjectRoot == <<<<"p">>>>

TestsDir == <<"t", "e", "s", "t", "s">>

SrcDir == <<"s", "r", "c">>

SubDir == <<"S", "u", "b">>

LowerDir == <<"s", "u", "b">>

\* source roots a call may be given
RootPool ==
    { ProjectRoot \o <<TestsDir>>,
      ProjectRoot \o <<SrcDir>>,
      ProjectRoot,
      ProjectRoot \o <<TestsDir, SubDir>> }

\* the pieces file names are made of
Pieces == { <<"A">>, <<"b">>, <<"_", "1">>, DotElm }

FileNames == {Concat(ps) : ps \in SeqsUpTo(Pieces, MaxPieces)}

\* directories a test file may lie in
FileDirs ==
    { ProjectRoot \o <<TestsDir>>,
      ProjectRoot \o <<TestsDir, SubDir>>,
      ProjectRoot \o <<TestsDir, LowerDir>>,
      ProjectRoot \o <<SrcDir>>,
      <<<<"q">>>> }

\* a test file: a file in one of the directories, or (no file name) the
\* directory path itself
TestFiles == FileDirs \cup {d \o <<f>> : d \in FileDirs, f \in FileNames}

SourceDirLists == SeqsFrom0(RootPool, MaxRoots)

(***************************************************************************)
(* The pipeline at rest, for the specifications of the helpers.            *)
(***************************************************************************)
\* an ApplicationConfig: its source directories, its dependencies, and its
\* Elm version for the fields that main never assigns
NoConfig ==
    [source_directories |-> <<>>, dependencies |-> "none",
     elm_version |-> "none"]

PipelineIdle ==
    /\ options = [help |-> FALSE, version |-> FALSE, report |-> "console",
                  files |-> <<>>]
    /\ disk = {}
    /\ source_directories = <<>>
    /\ pc = "idle"
    /\ outcome = [kind |-> "running"]
    /\ log = <<>>
    /\ module_paths = <<>>
    /\ test_directories = <<>>
    /\ elm_json_tests = NoConfig
    /\ output = Option_None
    /\ generated = <<>>
    /\ all_modules_and_tests = <<>>
    /\ supervisor = [state |-> "none", status |-> 0, stdin |-> <<>>]
    /\ exit_code = Option_None

Pending == [ok |-> FALSE, panic |-> "pending"]

(***************************************************************************)
(* Specification of get_module_name: any roots, any test file, one call.   *)
(***************************************************************************)
InitModuleName ==
    /\ PipelineIdle
    /\ \E dirs \in SourceDirLists, file \in TestFiles :
          call = [fn |-> "get_module_name", source_dirs |-> dirs,
                  test_file |-> file]
    /\ ret = Pending

CallGetModuleName ==
    /\ call.fn = "get_module_name"
    /\ ret = Pending
    /\ ret' = get_module_name(call.source_dirs, call.test_file)
    /\ UNCHANGED <<call, pipeline_vars>>

NextModuleName == CallGetModuleName

SpecModuleName == InitModuleName /\ [][NextModuleName]_vars

(***************************************************************************)
(* add_kernel_test_checking, lines 355-375.  The compiled JavaScript is a  *)
(* sequence of tokens; " " and "\n" are the whitespace tokens the regexes' *)
(* \s matches, every other token is an identifier, a keyword or a piece of *)
(* punctuation that the regexes match as a whole.                          *)
(***************************************************************************)
SP == " "

NL == "\n"

Whitespace == {SP, NL}

\* (?:ElmTestVariant__\w+|UnitTest|FuzzTest|Labeled|Skipped|Only|Batch)
\* behind the $elm_explorations$test$Test$Internal$ prefix
VariantNames ==
    { "$elm_explorations$test$Test$Internal$UnitTest",
      "$elm_explorations$test$Test$Internal$FuzzTest",
      "$elm_explorations$test$Test$Internal$Labeled",
      "$elm_explorations$test$Test$Internal$Skipped",
      "$elm_explorations$test$Test$Internal$Only",
      "$elm_explorations$test$Test$Internal$Batch",
      "$elm_explorations$test$Test$Internal$ElmTestVariant__Labeled" }

\* [\w, ]* between the parentheses of the function
ParamLists == {"()", "(a)", "(a, b)"}

\* \w+\( in front of the function
Wrappers == {"F2("}

CheckName == "$author$project$Runner$check"

CheckHelper == "$author$project$Runner$checkHelperReplaceMe___"

\* "$0 __elmTestSymbol: __elmTestSymbol," after the match
TagField == "__elmTestSymbol: __elmTestSymbol,"

TagSeq == <<SP, TagField>>

\* "$1 = value => ...;" after the first group
CheckFunction ==
    "value => value && value.__elmTestSymbol === __elmTestSymbol ? $elm$core$Maybe$Just(value) : $elm$core$Maybe$Nothing;"

CheckSeq == <<SP, "=", SP, CheckFunction>>

\* line 374
TokenAllocation == "const __elmTestSymbol = Symbol('elmTestSymbol');"

Tok(t, i) == IF i \in DOMAIN t THEN t[i] ELSE "<end>"

RECURSIVE SkipWs(_, _)
\* \s* from position i: the position of the first token that is not
\* whitespace
SkipWs(t, i) == IF Tok(t, i) \in Whitespace THEN SkipWs(t, i + 1) ELSE i

\* (?m)^
LineStart(t, i) == i = 1 \/ Tok(t, i - 1) = NL

\* (?m)$
LineEnd(t, i) == i = Len(t) + 1 \/ Tok(t, i) = NL

\* TEST_VARIANT_DEFINITION (line 365) at position i: the position of the
\* last token of the match, 0 when there is none
MatchVariantAt(t, i) ==
    LET name == SkipWs(t, i + 1)
        eq == SkipWs(t, name + 1)
        afterEq == SkipWs(t, eq + 1)
        fn == IF Tok(t, afterEq) \in Wrappers THEN SkipWs(t, afterEq + 1)
              ELSE afterEq
        params == SkipWs(t, fn + 1)
        open == SkipWs(t, params + 1)
        return == SkipWs(t, open + 1)
        record == SkipWs(t, return + 1)
    IN  IF /\ LineStart(t, i)
           /\ Tok(t, i) = "var"
           /\ name > i + 1
           /\ Tok(t, name) \in VariantNames
           /\ Tok(t, eq) = "="
           /\ Tok(t, fn) = "function"
           /\ Tok(t, params) \in ParamLists
           /\ Tok(t, open) = "{"
           /\ Tok(t, return) = "return"
           /\ Tok(t, record) = "{"
        THEN record ELSE 0

\* CHECK_DEFINITION (line 367) at position i: <<the last token of group 1,
\* the last token of the match>>, <<0, 0>> when there is none
MatchCheckAt(t, i) ==
    LET name == SkipWs(t, i + 1)
        eq == SkipWs(t, name + 1)
        helper == SkipWs(t, eq + 1)
        last == IF Tok(t, helper + 1) = ";" /\ LineEnd(t, helper + 2)
                THEN helper + 1 ELSE helper
    IN  IF /\ LineStart(t, i)
           /\ Tok(t, i) = "var"
           /\ name > i + 1
           /\ Tok(t, name) = CheckName
           /\ Tok(t, eq) = "="
           /\ Tok(t, helper) = CheckHelper
           /\ LineEnd(t, last + 1)
        THEN <<name, last>> ELSE <<0, 0>>

RECURSIVE ReplaceAllFrom(_, _)
\* Regex::replace_all from position i on: matches are taken left to right
\* and do not overlap
ReplaceAllFrom(t, i) ==
    IF i > Len(t) THEN <<>>
    ELSE LET e == MatchVariantAt(t, i)
         IN  IF e > 0
             THEN SubSeq(t, i, e) \o TagSeq \o ReplaceAllFrom(t, e + 1)
             ELSE <<t[i]>> \o ReplaceAllFrom(t, i + 1)

\* faulty variant of tag_test_variants: Regex::replace in the place of
\* replace_all, so that only the first constructor definition is rewritten
tag_first_variant_only(elm_js) ==
    LET hits == {i \in DOMAIN elm_js : MatchVariantAt(elm_js, i) > 0}
    IN  IF hits = {} THEN elm_js
        ELSE LET i == CHOOSE h \in hits : \A k \in hits : h <= k
                 e == MatchVariantAt(elm_js, i)
             IN  SubSeq(elm_js, 1, e) \o TagSeq
                   \o SubSeq(elm_js, e + 1, Len(elm_js))

\* lines 370-371: TEST_VARIANT_DEFINITION.replace_all
tag_test_variants(elm_js) == ReplaceAllFrom(elm_js, 1)

RECURSIVE ReplaceCheckFrom(_, _)
\* faulty variant of replace_check: Regex::replace_all in the place of
\* replace, so that every placeholder definition is rewritten
ReplaceCheckFrom(t, i) ==
    IF i > Len(t) THEN <<>>
    ELSE LET m == MatchCheckAt(t, i)
         IN  IF m[2] > 0
             THEN SubSeq(t, i, m[1]) \o CheckSeq \o ReplaceCheckFrom(t, m[2] + 1)
             ELSE <<t[i]>> \o ReplaceCheckFrom(t, i + 1)

replace_check_all(elm_js) == ReplaceCheckFrom(elm_js, 1)

\* line 372: CHECK_DEFINITION.replace, the first match only
replace_check(elm_js) ==
    LET hits == {i \in DOMAIN elm_js : MatchCheckAt(elm_js, i)[2] > 0}
    IN  IF hits = {} THEN elm_js
        ELSE LET i == CHOOSE h \in hits : \A k \in hits : h <= k
                 m == MatchCheckAt(elm_js, i)
             IN  SubSeq(elm_js, 1, m[1]) \o CheckSeq
                   \o SubSeq(elm_js, m[2] + 1, Len(elm_js))

\* faulty variant of add_kernel_test_checking: a text in which neither
\* pattern matches is left as it is
add_kernel_test_checking_if_matched(elm_js) ==
    IF replace_check(tag_test_variants(elm_js)) = elm_js THEN elm_js
    ELSE <<TokenAllocation, NL>> \o replace_check(tag_test_variants(elm_js))

\* lines 355-375
add_kernel_test_checking(elm_js) ==
    <<TokenAllocation, NL>> \o replace_check(tag_test_variants(elm_js))

(***************************************************************************)
(* Inputs of add_kernel_test_checking: compiled output made of these       *)
(* chunks, one per line (the first spans three lines, as the compiler      *)
(* prints a wrapped constructor).                                          *)
(***************************************************************************)
ChunkWrappedVariant ==
    << "var", SP, "$elm_explorations$test$Test$Internal$UnitTest", SP, "=",
       SP, "F2(", NL, SP, "function", SP, "(a, b)", SP, "{", NL, SP,
       "return", SP, "{", "$: 'UnitTest', a: a, b: b};", NL, SP, "});" >>

ChunkPrefixedVariant ==
    << "var", SP,
       "$elm_explorations$test$Test$Internal$ElmTestVariant__Labeled", SP,
       "=", SP, "function", SP, "(a)", SP, "{", SP, "return", SP, "{",
       "$: 'Labeled', a: a};", SP, "};" >>

\* not at the start of a line
ChunkIndentedVariant ==
    << SP, "var", SP, "$elm_explorations$test$Test$Internal$Batch", SP, "=",
       SP, "function", SP, "(a)", SP, "{", SP, "return", SP, "{",
       "$: 'Batch', a: a};", SP, "};" >>

\* not one of the constructors
ChunkOtherDefinition ==
    << "var", SP, "$elm_explorations$test$Test$Internal$toString", SP, "=",
       SP, "function", SP, "(a)", SP, "{", SP, "return", SP, "{",
       "$: 'Other', a: a};", SP, "};" >>

ChunkCheck == << "var", SP, CheckName, SP, "=", SP, CheckHelper, ";" >>

ChunkCheckNoSemicolon == << "var", SP, CheckName, "=", CheckHelper >>

\* the placeholder is not the whole right-hand side
ChunkCheckApplied ==
    << "var", SP, CheckName, SP, "=", SP, CheckHelper, "(1)", ";" >>

ChunkStatement == << "console.log('elm');" >>

Chunks ==
    { ChunkWrappedVariant, ChunkPrefixedVariant, ChunkIndentedVariant,
      ChunkOtherDefinition, ChunkCheck, ChunkCheckNoSemicolon,
      ChunkCheckApplied, ChunkStatement }

CompiledOutputs == {Join(cs, <<NL>>) : cs \in SeqsFrom0(Chunks, MaxChunks)}

(***************************************************************************)
(* Specification of add_kernel_test_checking: any compiled output, one     *)
(* call.                                                                   *)
(***************************************************************************)
InitPatch ==
    /\ PipelineIdle
    /\ \E js \in CompiledOutputs :
          call = [fn |-> "add_kernel_test_checking", elm_js |-> js]
    /\ ret = Pending

CallAddKernelTestChecking ==
    /\ call.fn = "add_kernel_test_checking"
    /\ ret = Pending
    /\ ret' = Returned(add_kernel_test_checking(call.elm_js))
    /\ UNCHANGED <<call, pipeline_vars>>

NextPatch == CallAddKernelTestChecking

SpecPatch == InitPatch /\ [][NextPatch]_vars

(***************************************************************************)
(* The pipeline: main, lines 37-304.                                       *)
(***************************************************************************)
ElmSuffix(name) == EndsWithSeq(name, DotElm)

FileA == ProjectRoot \o <<TestsDir, <<"A", ".", "e", "l", "m">>>>

FileB == ProjectRoot \o <<TestsDir, SubDir, <<"B", ".", "e", "l", "m">>>>

FileC == ProjectRoot \o <<SrcDir, <<"C", ".", "e", "l", "m">>>>

FileLower == ProjectRoot \o <<TestsDir, <<"b", ".", "e", "l", "m">>>>

\* the test sources a project may hold
FilePool == {FileA, FileB, FileC, FileLower}

Disks == {d \in SUBSET FilePool : Cardinality(d) <= MaxFiles}

\* a glob pattern: dir/*.elm ("star"), dir/**/*.elm ("starstar"), or one
\* the glob crate rejects ("bad")
Star(dir) == [kind |-> "star", dir |-> dir]

StarStar(dir) == [kind |-> "starstar", dir |-> dir]

BadPattern == [kind |-> "bad", dir |-> <<>>]

\* lines 66-69: the default patterns
DefaultGlobs(root) ==
    << Star(root \o <<TestsDir>>), StarStar(root \o <<TestsDir>>) >>

\* the values of options.files
FileArgs ==
    { <<>>,
      << Star(ProjectRoot \o <<SrcDir>>) >>,
      << Star(ProjectRoot \o <<<<"n", "o", "n", "e">>>>) >>,
      << BadPattern >> }

\* the values of options.report
Reports == {"console", "json", "junit", "xml"}

\* the values of "source-directories" in the host elm.json
HostSourceDirectories ==
    { <<<<SrcDir>>>>, <<<<SrcDir>>, <<TestsDir>>>>,
      <<<<SrcDir>>, <<TestsDir, SubDir>>>> }

\* what glob::glob yields for a pattern; `**` also stands for no directory
GlobMatches(pattern, path) ==
    /\ pattern.kind \in {"star", "starstar"}
    /\ starts_with(path, pattern.dir)
    /\ Len(path) > Len(pattern.dir)
    /\ pattern.kind = "star" => Len(path) = Len(pattern.dir) + 1
    /\ ElmSuffix(path[Len(path)])

RECURSIVE SetToSeq(_)
\* the paths of a set, in the order an iterator yields them
SetToSeq(S) ==
    IF S = {} THEN <<>>
    ELSE LET x == CHOOSE y \in S : TRUE IN <<x>> \o SetToSeq(S \ {x})

\* line 79: the paths one pattern expands to
glob(pattern, files) == SetToSeq({f \in files : GlobMatches(pattern, f)})

\* lines 76-88: flat_map over the patterns
expanded_globs(module_globs, files) ==
    Concat([i \in DOMAIN module_globs |-> glob(module_globs[i], files)])

\* faulty variant of collect_set: collect into a Vec, which keeps a path
\* as often as the patterns yield it
collect_vec(paths) == paths

\* line 90: collect into a HashSet, which keeps one of equal paths
collect_set(paths) ==
    LET kept == {i \in DOMAIN paths : \A j \in 1..(i - 1) : paths[j] # paths[i]}
    IN  [k \in 1..Cardinality(kept) |->
            paths[CHOOSE i \in kept : Cardinality({j \in kept : j <= i}) = k]]

\* lines 64-72
module_globs_of(files) ==
    IF files = <<>> THEN DefaultGlobs(ProjectRoot) ELSE files

\* faulty variant of validate_reporter: every report value is accepted
reporter_any(report) == Option_Some(report)

\* lines 52-61: the validated reporter, None for a wrong value
validate_reporter(report) ==
    IF report \in {"console", "json", "junit"} THEN Option_Some(report)
    ELSE Option_None

\* line 104
tests_root == ProjectRoot \o << <<"e", "l", "m", "-", "s", "t", "u", "f", "f">>,
                                <<"t", "e", "s", "t", "s", "-", "0", ".", "1", "9", ".", "1">> >>

UpDir == <<".", ".">>

\* pathdiff::diff_paths(path, base) for two canonical paths
diff_paths(path, base) ==
    LET common == CHOOSE k \in 0..Len(base) :
                     /\ k <= Len(path)
                     /\ SubSeq(path, 1, k) = SubSeq(base, 1, k)
                     /\ \A j \in (k + 1)..Len(base) :
                           j > Len(path)
                           \/ SubSeq(path, 1, j) # SubSeq(base, 1, j)
    IN  [i \in 1..(Len(base) - common) |-> UpDir]
          \o SubSeq(path, common + 1, Len(path))

\* faulty variant of test_directories_of: tests/ is added only when the
\* host does not list it
test_directories_deduplicated(dirs) ==
    [i \in 1..(Len(dirs) + (IF <<TestsDir>> \in Range(dirs) THEN 0 ELSE 1)) |->
        ProjectRoot \o (IF i <= Len(dirs) THEN dirs[i] ELSE <<TestsDir>>)]

\* lines 106-114: the host's source directories and tests/, made absolute
test_directories_of(dirs) ==
    [i \in 1..(Len(dirs) + 1) |->
        ProjectRoot \o (IF i <= Len(dirs) THEN dirs[i] ELSE <<TestsDir>>)]

ElmTestRsSrc == << <<"e", "l", "m", "-", "t", "e", "s", "t", "-", "r", "s">>,
                   <<"e", "l", "m">>, SrcDir >>

\* lines 116-129
source_directories_for_runner(dirs) ==
    [i \in DOMAIN dirs |-> diff_paths(dirs[i], tests_root)]
      \o << <<SrcDir>>, ElmTestRsSrc >>

\* ExitStatus::success and ExitStatus::code; -1 stands for a process that
\* was ended by a signal and has no code
Success(status) == status = 0

Code(status) == IF status = -1 THEN Option_None ELSE Option_Some(status)

\* exit statuses of the compiler, the solver and the supervisor
CompilerStatuses == {-1, 0, 1}

SolverStatuses == {0, 1}

SupervisorStatuses == {-1, 0, 1, 2}

\* standard output of elm-json: a dependency mapping, or text that
\* miniserde does not parse as one
SolverStdouts == {"dependencies", "malformed"}

\* compiled Runner.elm.js in a pipeline run
RunnerOutputs ==
    { Join(<<ChunkWrappedVariant, ChunkPrefixedVariant, ChunkCheck>>, <<NL>>),
      Join(<<ChunkStatement, ChunkCheck>>, <<NL>>),
      Join(<<ChunkPrefixedVariant, ChunkStatement>>, <<NL>>),
      ChunkStatement }

\* the test identifiers the parser finds in a module
TestLists == { <<"suite">>, <<"suite", "fuzz">> }

Running == [kind |-> "running"]

ReturnedFromMain == [kind |-> "return"]

Exited(code) == [kind |-> "exit", code |-> code]

Panic(msg) == [kind |-> "panic", msg |-> msg]

\* the exit status the operating system sees.  main returns () on every
\* return path (--help, --version and a wrong --report alike), which ends
\* the process like --help does, with 0; a panic ends it with 101
ExitStatus(o) ==
    CASE o.kind = "exit" -> o.code
      [] o.kind = "return" -> 0
      [] o.kind = "panic" -> 101

Ev(name) == [ev |-> name, status |-> 0]

EvStatus(name, status) == [ev |-> name, status |-> status]

\* a file written, with what was written to it
EvWrite(name, content) == [ev |-> name, status |-> 0, content |-> content]

Events == [i \in DOMAIN log |-> log[i].ev]

Happened(name) == \E i \in DOMAIN log : log[i].ev = name

NoSupervisor == [state |-> "none", status |-> 0, stdin |-> <<>>]

Init ==
    /\ options \in [help : BOOLEAN, version : BOOLEAN, report : Reports,
                    files : FileArgs]
    /\ disk \in Disks
    /\ source_directories \in HostSourceDirectories
    /\ pc = "start"
    /\ outcome = Running
    /\ log = <<>>
    /\ module_paths = <<>>
    /\ test_directories = <<>>
    /\ elm_json_tests = NoConfig
    /\ output = Option_None
    /\ generated = <<>>
    /\ all_modules_and_tests = <<>>
    /\ supervisor = NoSupervisor
    /\ exit_code = Option_None
    /\ call = [fn |-> "main"]
    /\ ret = Pending

\* the process ends with outcome o and nothing else changes
Die(o) ==
    /\ pc' = "done"
    /\ outcome' = o
    /\ UNCHANGED <<options, disk, source_directories, log, module_paths,
                   test_directories, elm_json_tests, output, generated,
                   all_modules_and_tests, supervisor, exit_code, call, ret>>

\* main goes on to `next` and nothing else changes
Goto(next) ==
    /\ pc' = next
    /\ UNCHANGED <<options, disk, source_directories, outcome, log,
                   module_paths, test_directories, elm_json_tests, output,
                   generated, all_modules_and_tests, supervisor, exit_code,
                   call, ret>>

\* lines 38-46
HelpOrVersion ==
    /\ pc = "start"
    /\ IF options.help \/ options.version THEN Die(ReturnedFromMain)
       ELSE Goto("elm_project_root")

\* line 49
ElmProjectRoot ==
    /\ pc = "elm_project_root"
    /\ \/ Goto("reporter")
       \/ Die(Panic("not in an Elm project"))

\* lines 51-61
ValidateReporter ==
    /\ pc = "reporter"
    /\ IF validate_reporter(options.report).some THEN Goto("module_paths")
       ELSE Die(ReturnedFromMain)

\* lines 63-90
ModulePaths ==
    /\ pc = "module_paths"
    /\ LET module_globs == module_globs_of(options.files)
       IN  IF \E i \in DOMAIN module_globs : module_globs[i].kind = "bad"
           THEN Die(Panic("Failed to read glob pattern"))
           ELSE /\ module_paths' =
                      collect_set(expanded_globs(module_globs, disk))
                /\ pc' = "read_elm_json"
                /\ UNCHANGED <<options, disk, source_directories, outcome,
                               log, test_directories, elm_json_tests, output,
                               generated, all_modules_and_tests, supervisor,
                               exit_code, call, ret>>

\* lines 92-101
ReadElmJson ==
    /\ pc = "read_elm_json"
    /\ \/ /\ elm_json_tests' = [source_directories |-> source_directories,
                                dependencies |-> "host",
                                elm_version |-> "0.19.1"]
          /\ pc' = "test_directories"
          /\ UNCHANGED <<options, disk, source_directories, outcome, log,
                         module_paths, test_directories, output, generated,
                         all_modules_and_tests, supervisor, exit_code, call,
                         ret>>
       \/ Die(Panic("Unable to read elm.json"))

\* lines 103-132
TestDirectories ==
    /\ pc = "test_directories"
    /\ \/ /\ test_directories' = test_directories_of(source_directories)
          /\ elm_json_tests' =
                [source_directories |->
                    source_directories_for_runner(
                        test_directories_of(source_directories)),
                 dependencies |-> "host, test dependencies promoted",
                 elm_version |-> elm_json_tests.elm_version]
          /\ pc' = "write_elm_json"
          /\ UNCHANGED <<options, disk, source_directories, outcome, log,
                         module_paths, output, generated,
                         all_modules_and_tests, supervisor, exit_code, call,
                         ret>>
       \/ Die(Panic("canonicalize of a source directory"))

\* what main leaves alone when it records an effect and goes on
Frame == <<options, disk, source_directories, module_paths,
           test_directories, call, ret>>

\* File::create(path).write_all(content)
Write(name, content) == (name :> content) @@ generated

\* lines 134-140: the draft elm.json
WriteDraftElmJson ==
    /\ pc = "write_elm_json"
    /\ \/ /\ generated' = Write("elm.json", elm_json_tests)
          /\ log' = Append(log, EvWrite("write elm.json (draft)",
                                        elm_json_tests))
          /\ pc' = "elm_json_solve"
          /\ UNCHANGED <<Frame, outcome, elm_json_tests, output,
                         all_modules_and_tests, supervisor, exit_code>>
       \/ Die(Panic("Unable to create generated elm.json"))

\* lines 142-161: the status of the Output is never looked at
ElmJsonSolve ==
    /\ pc = "elm_json_solve"
    /\ \/ \E status \in SolverStatuses, stdout \in SolverStdouts :
             /\ output' = Option_Some([status |-> status, stdout |-> stdout])
             /\ log' = Append(log, EvStatus("spawn elm-json", status))
             /\ pc' = "solved_dependencies"
             /\ UNCHANGED <<Frame, outcome, elm_json_tests, generated,
                            all_modules_and_tests, supervisor, exit_code>>
       \/ Die(Panic("command failed to start"))

\* miniserde::json::from_str of lines 162-164
parse_dependencies(stdout) ==
    IF stdout = "dependencies" THEN Option_Some("solved") ELSE Option_None

\* faulty variant of with_dependencies: the solved dependencies are
\* dropped
with_host_dependencies(config, dependencies) == config

\* line 165: elm_json_tests.dependencies = solved_dependencies
with_dependencies(config, dependencies) ==
    [config EXCEPT !.dependencies = dependencies]

\* lines 162-165
SolvedDependencies ==
    /\ pc = "solved_dependencies"
    /\ LET solved_dependencies == parse_dependencies(output.value.stdout)
       IN  IF solved_dependencies.some
           THEN /\ elm_json_tests' =
                      with_dependencies(elm_json_tests,
                                        solved_dependencies.value)
                /\ pc' = "write_solved_elm_json"
                /\ UNCHANGED <<Frame, outcome, log, output, generated,
                               all_modules_and_tests, supervisor, exit_code>>
           ELSE Die(Panic("Wrongly formed dependencies"))

\* lines 166-169: the solved elm.json
WriteSolvedElmJson ==
    /\ pc = "write_solved_elm_json"
    /\ \/ /\ generated' = Write("elm.json", elm_json_tests)
          /\ log' = Append(log, EvWrite("write elm.json (solved)",
                                        elm_json_tests))
          /\ pc' = "compile_tests"
          /\ UNCHANGED <<Frame, outcome, elm_json_tests, output,
                         all_modules_and_tests, supervisor, exit_code>>
       \/ Die(Panic("Unable to create generated elm.json"))

\* faulty variant of compile_exits: the status of the compiler is ignored
compile_never_exits(status) == FALSE

\* lines 339-341: whether compile ends the process
compile_exits(status) == ~Success(status)

\* lines 171-178 and 322-342: compile pass (a), all test files to /dev/null
CompileTests ==
    /\ pc = "compile_tests"
    /\ \/ \E status \in CompilerStatuses :
             /\ log' = Append(log, EvStatus("spawn compiler (tests)", status))
             /\ IF compile_exits(status)
                THEN pc' = "done" /\ outcome' = Exited(1)
                ELSE pc' = "all_tests" /\ outcome' = outcome
             /\ UNCHANGED <<Frame, elm_json_tests, output, generated,
                            all_modules_and_tests, supervisor, exit_code>>
       \/ Die(Panic("Command elm make failed to start"))

\* parser::all_tests: one entry per (path, content) pair it is given, in
\* some order, each with the test identifiers the module exposes
ParserResults(paths) ==
    { m \in [DOMAIN paths -> [path : Range(paths), tests : TestLists]] :
        \A p \in Range(paths) :
            Cardinality({i \in DOMAIN m : m[i].path = p})
              = Cardinality({i \in DOMAIN paths : paths[i] = p}) }

\* lines 180-187
AllTests ==
    /\ pc = "all_tests"
    /\ \/ \E found \in ParserResults(module_paths) :
             /\ all_modules_and_tests' = found
             /\ log' = Append(log, Ev("all_tests"))
             /\ pc' = "runner"
             /\ UNCHANGED <<Frame, outcome, elm_json_tests, output,
                            generated, supervisor, exit_code>>
       \/ Die(Panic("all_tests"))

\* faulty variant of full_module_tests: only the first test identifier of
\* a module is checked
full_module_tests_first(module_name, tests) ==
    [j \in DOMAIN tests \cap {1} |-> <<"check", module_name, tests[j]>>]

\* lines 192-197: the check expressions of one module
full_module_tests(module_name, tests) ==
    [j \in DOMAIN tests |-> <<"check", module_name, tests[j]>>]

\* lines 189-212, the first half of the unzip
runner_imports(modules, names) ==
    [i \in DOMAIN modules |-> <<"import", names[i]>>]

\* lines 189-212, the second half of the unzip
maybe_runner_tests(modules, names) ==
    [i \in DOMAIN modules |->
        [module_ |-> names[i],
         maybeTests |-> full_module_tests(names[i], modules[i].tests)]]

\* lines 189-222
CreateRunner ==
    /\ pc = "runner"
    /\ LET results == [i \in DOMAIN all_modules_and_tests |->
                          get_module_name(test_directories,
                                          all_modules_and_tests[i].path)]
           failed == {i \in DOMAIN results : ~results[i].ok}
           names == [i \in DOMAIN results |->
                        IF results[i].ok THEN results[i].value ELSE <<>>]
       IN  IF failed # {}
           THEN Die(Panic(results[CHOOSE i \in failed :
                                     \A k \in failed : i <= k].panic))
           ELSE \/ /\ generated' =
                         Write("src/Runner.elm",
                               [user_imports |->
                                   runner_imports(all_modules_and_tests, names),
                                tests |->
                                   maybe_runner_tests(all_modules_and_tests,
                                                      names)])
                   /\ log' = Append(log, Ev("write src/Runner.elm"))
                   /\ pc' = "compile_runner"
                   /\ UNCHANGED <<Frame, outcome, elm_json_tests, output,
                                  all_modules_and_tests, supervisor,
                                  exit_code>>
                \/ Die(Panic("template missing"))

\* lines 224-232 and 322-342: compile pass (b), src/Runner.elm
CompileRunner ==
    /\ pc = "compile_runner"
    /\ \/ \E status \in CompilerStatuses, js \in RunnerOutputs :
             /\ log' = Append(log, EvStatus("spawn compiler (runner)", status))
             /\ IF compile_exits(status)
                THEN /\ pc' = "done"
                     /\ outcome' = Exited(1)
                     /\ generated' = generated
                ELSE /\ pc' = "patch"
                     /\ outcome' = outcome
                     /\ generated' = Write("js/Runner.elm.js", js)
             /\ UNCHANGED <<Frame, elm_json_tests, output,
                            all_modules_and_tests, supervisor, exit_code>>
       \/ Die(Panic("Command elm make failed to start"))

\* lines 236-238: add_kernel_test_checking of the text read from
\* Runner.elm.js, for every text the compiler may have written there
patched_runner_js ==
    [elm_js \in RunnerOutputs |-> add_kernel_test_checking(elm_js)]

\* lines 234-240
PatchRunner ==
    /\ pc = "patch"
    /\ \/ /\ "js/Runner.elm.js" \in DOMAIN generated
          /\ generated' =
                Write("js/Runner.elm.js",
                      patched_runner_js[generated["js/Runner.elm.js"]])
          /\ log' = Append(log, Ev("patch js/Runner.elm.js"))
          /\ pc' = "node_runner"
          /\ UNCHANGED <<Frame, outcome, elm_json_tests, output,
                         all_modules_and_tests, supervisor, exit_code>>
       \/ Die(Panic("Cannot read newly created elm.js file"))
       \/ Die(Panic("Cannot write updated elm.js file"))

\* line 245, as the string of line 297
node_runner_path == "elm-stuff/tests-0.19.1/js/node_runner.js"

\* lines 242-254
CreateNodeRunner ==
    /\ pc = "node_runner"
    /\ \/ /\ generated' = Write("js/node_runner.js", "node_runner.js")
          /\ log' = Append(log, Ev("write js/node_runner.js"))
          /\ pc' = "compile_reporter"
          /\ UNCHANGED <<Frame, outcome, elm_json_tests, output,
                         all_modules_and_tests, supervisor, exit_code>>
       \/ Die(Panic("polyfills.js template missing"))

\* lines 256-264 and 322-342: compile pass (c), templates/Reporter.elm
CompileReporter ==
    /\ pc = "compile_reporter"
    /\ \/ \E status \in CompilerStatuses :
             /\ log' = Append(log,
                              EvStatus("spawn compiler (reporter)", status))
             /\ IF compile_exits(status)
                THEN /\ pc' = "done"
                     /\ outcome' = Exited(1)
                     /\ generated' = generated
                ELSE /\ pc' = "node_supervisor"
                     /\ outcome' = outcome
                     /\ generated' = Write("js/Reporter.elm.js", "Reporter")
             /\ UNCHANGED <<Frame, elm_json_tests, output,
                            all_modules_and_tests, supervisor, exit_code>>
       \/ Die(Panic("Command elm make failed to start"))

\* lines 266-277
CreateNodeSupervisor ==
    /\ pc = "node_supervisor"
    /\ \/ /\ generated' =
                Write("js/node_supervisor.js",
                      validate_reporter(options.report).value)
          /\ log' = Append(log, Ev("write js/node_supervisor.js"))
          /\ pc' = "spawn_supervisor"
          /\ UNCHANGED <<Frame, outcome, elm_json_tests, output,
                         all_modules_and_tests, supervisor, exit_code>>
       \/ Die(Panic("template missing"))

\* lines 279-286
SpawnSupervisor ==
    /\ pc = "spawn_supervisor"
    /\ \/ /\ supervisor' = [state |-> "running", status |-> 0,
                            stdin |-> <<>>]
          /\ log' = Append(log, Ev("spawn node"))
          /\ pc' = "writeln"
          /\ UNCHANGED <<Frame, outcome, elm_json_tests, output, generated,
                         all_modules_and_tests, exit_code>>
       \/ Die(Panic("command failed to start"))

\* faulty variant of writeln_bytes: the message is not ended by a newline
writeln_no_newline(msg) == <<msg>>

\* lines 290-293: what the closure writes, the message and then "\n"
writeln_bytes(msg) == <<msg, NL>>

\* lines 288-298: two write_all calls, each of which may fail
Writeln ==
    /\ pc = "writeln"
    /\ \/ /\ supervisor' =
                [supervisor EXCEPT
                    !.stdin = supervisor.stdin
                                \o writeln_bytes(node_runner_path)]
          /\ pc' = "try_wait"
          /\ outcome' = outcome
       \/ /\ supervisor' =
                [supervisor EXCEPT
                    !.stdin = supervisor.stdin \o <<node_runner_path>>]
          /\ pc' = "done"
          /\ outcome' = Panic("writeln")
       \/ /\ supervisor' = supervisor
          /\ pc' = "done"
          /\ outcome' = Panic("writeln")
    /\ UNCHANGED <<Frame, log, elm_json_tests, output, generated,
                   all_modules_and_tests, exit_code>>

\* the node process ends by itself, at any time
SupervisorExits ==
    /\ supervisor.state = "running"
    /\ \E status \in SupervisorStatuses :
          supervisor' = [supervisor EXCEPT !.state = "exited",
                                           !.status = status]
    /\ UNCHANGED <<Frame, pc, outcome, log, elm_json_tests, output,
                   generated, all_modules_and_tests, exit_code>>

\* lines 307-309 and 314-317: Child::try_wait
TryWait ==
    /\ pc = "try_wait"
    /\ \/ /\ supervisor.state = "exited"
          /\ exit_code' = Code(supervisor.status)
          /\ log' = Append(log, Ev("wait_child"))
          /\ pc' = "exit"
       \/ /\ supervisor.state = "running"
          /\ exit_code' = exit_code
          /\ log' = log
          /\ pc' = "wait"
       \/ /\ exit_code' = Option_None
          /\ log' = Append(log, Ev("wait_child failed"))
          /\ pc' = "exit"
    /\ UNCHANGED <<Frame, outcome, elm_json_tests, output, generated,
                   all_modules_and_tests, supervisor>>

\* faulty variant of wait_unblocked: the wait never sees the child end
wait_never_unblocked(child) == FALSE

\* line 310: Child::wait blocks until the child has ended
wait_unblocked(child) == child.state = "exited"

\* lines 310-311: Child::wait returns the status of the child
WaitReturns ==
    /\ pc = "wait"
    /\ wait_unblocked(supervisor)
    /\ exit_code' = Code(supervisor.status)
    /\ log' = Append(log, Ev("wait_child"))
    /\ pc' = "exit"
    /\ UNCHANGED <<Frame, outcome, elm_json_tests, output, generated,
                   all_modules_and_tests, supervisor>>

\* line 312: Child::wait returns an error
WaitFails ==
    /\ pc = "wait"
    /\ exit_code' = Option_None
    /\ log' = Append(log, Ev("wait_child failed"))
    /\ pc' = "exit"
    /\ UNCHANGED <<Frame, outcome, elm_json_tests, output, generated,
                   all_modules_and_tests, supervisor>>

\* lines 310-313
Wait == WaitReturns \/ WaitFails

\* faulty variant of unwrap_or_1: a missing exit code counts as success
unwrap_or_zero(code) == IF code.some THEN code.value ELSE 0

\* line 303: exit_code.unwrap_or(1)
unwrap_or_1(code) == IF code.some THEN code.value ELSE 1

\* lines 300-303
ProcessExit ==
    /\ pc = "exit"
    /\ pc' = "done"
    /\ outcome' = Exited(unwrap_or_1(exit_code))
    /\ UNCHANGED <<Frame, log, elm_json_tests, output, generated,
                   all_modules_and_tests, supervisor, exit_code>>

Next ==
    \/ HelpOrVersion
    \/ ElmProjectRoot
    \/ ValidateReporter
    \/ ModulePaths
    \/ ReadElmJson
    \/ TestDirectories
    \/ WriteDraftElmJson
    \/ ElmJsonSolve
    \/ SolvedDependencies
    \/ WriteSolvedElmJson
    \/ CompileTests
    \/ AllTests
    \/ CreateRunner
    \/ CompileRunner
    \/ PatchRunner
    \/ CreateNodeRunner
    \/ CompileReporter
    \/ CreateNodeSupervisor
    \/ SpawnSupervisor
    \/ Writeln
    \/ SupervisorExits
    \/ TryWait
    \/ Wait
    \/ ProcessExit

Spec == Init /\ [][Next]_vars

(***************************************************************************)
(* Properties of the pipeline, checked under Spec.                         *)
(***************************************************************************)
Terminated == pc = "done"

ValidReports == {"console", "json", "junit"}

SpawnEvents ==
    { "spawn elm-json", "spawn compiler (tests)", "spawn compiler (runner)",
      "spawn compiler (reporter)", "spawn node" }

CompileEvents ==
    { "spawn compiler (tests)", "spawn compiler (runner)",
      "spawn compiler (reporter)" }

NoSubprocessSpawned ==
    /\ \A i \in DOMAIN log : log[i].ev \notin SpawnEvents
    /\ supervisor.state = "none"

Waited == Happened("wait_child") \/ Happened("wait_child failed")

\* what the claim of C1 asks the exit status to be: the exit code of the
\* supervisor child, and 1 when the wait failed or the child has no code
ExpectedExitStatus ==
    IF \/ Happened("wait_child failed")
       \/ supervisor.state # "exited"
       \/ ~Code(supervisor.status).some
    THEN 1
    ELSE Code(supervisor.status).value

\* C1 as stated: whenever the supervisor has been spawned and has ended, and
\* the process has ended, the exit status of the process is the exit code of
\* the supervisor child, and 1 when that code is missing or was not obtained.
C1_ExitStatusOnceSpawned ==
    (Happened("spawn node") /\ supervisor.state = "exited" /\ Terminated)
        => ExitStatus(outcome) = ExpectedExitStatus

\* C1, amended: whenever wait_child has been called (the supervisor was
\* spawned and the handoff line written) and the process has ended, it ended
\* through process::exit with the exit code of the supervisor child, and
\* with 1 when the wait failed or the child ended without a code.
C1_ExitStatusAfterWait ==
    (Waited /\ Terminated)
        => /\ outcome.kind = "exit"
           /\ outcome.code = ExpectedExitStatus
           /\ Happened("wait_child") => supervisor.state = "exited"

C1_Witness ==
    /\ Terminated
    /\ Happened("wait_child")
    /\ supervisor.state = "exited"
    /\ supervisor.status = 2
    /\ outcome = Exited(2)

\* C2: a compile pass whose status is not success is the last thing the
\* process does: it has ended with status 1, and after a failed pass over
\* the test files the parser was never called, Runner.elm was never written
\* and the supervisor was never spawned.
C2_FailedCompileEndsThePipeline ==
    \A i \in DOMAIN log :
        (log[i].ev \in CompileEvents /\ ~Success(log[i].status))
            => /\ i = Len(log)
               /\ Terminated
               /\ outcome = Exited(1)
               /\ supervisor.state = "none"
               /\ log[i].ev = "spawn compiler (tests)"
                    => /\ ~Happened("all_tests")
                       /\ "src/Runner.elm" \notin DOMAIN generated
                       /\ all_modules_and_tests = <<>>

C2_Witness ==
    /\ Terminated
    /\ log # <<>>
    /\ log[Len(log)] = EvStatus("spawn compiler (tests)", 1)
    /\ outcome = Exited(1)

\* C3: with a report value outside {console, json, junit} no subprocess is
\* ever spawned: neither the solver, nor the compiler, nor the supervisor.
C3_BadReportSpawnsNothing ==
    options.report \notin ValidReports => NoSubprocessSpawned

C3_Witness ==
    /\ options.report = "xml"
    /\ ~options.help
    /\ ~options.version
    /\ Terminated
    /\ outcome = ReturnedFromMain
    /\ log = <<>>

\* C4 as stated: with a report value outside {console, json, junit} (and
\* neither --help nor --version) the process ends with a non-zero status.
C4_BadReportExitsNonZero ==
    (/\ options.report \notin ValidReports
     /\ ~options.help
     /\ ~options.version
     /\ Terminated)
        => ExitStatus(outcome) # 0

\* C5 as stated: once the solver has exited with a non-zero status, the
\* process ends without the second write of elm.json and without any
\* compile pass.
C5_SolverFailureIsFatal ==
    \A i \in DOMAIN log :
        (log[i].ev = "spawn elm-json" /\ log[i].status # 0)
            => /\ i = Len(log)
               /\ ~Happened("write elm.json (solved)")
               /\ \A j \in DOMAIN log : log[j].ev \notin CompileEvents

\* C6 as stated: when the patterns match no file, no subprocess is spawned.
C6_NoTestFileSpawnsNothing ==
    (pc \notin {"start", "elm_project_root", "reporter", "module_paths"}
     /\ module_paths = <<>>)
        => NoSubprocessSpawned

\* the stages of main, in the order of the source
StageOrder ==
    << "write elm.json (draft)", "spawn elm-json", "write elm.json (solved)",
       "spawn compiler (tests)", "all_tests", "write src/Runner.elm",
       "spawn compiler (runner)", "patch js/Runner.elm.js",
       "write js/node_runner.js", "spawn compiler (reporter)",
       "write js/node_supervisor.js", "spawn node" >>

Stages == SelectSeq(log, LAMBDA e : e.ev \in Range(StageOrder))

\* the stages that have run are the first stages of StageOrder, in order
StagesInOrder ==
    /\ Len(Stages) <= Len(StageOrder)
    /\ \A i \in DOMAIN Stages : Stages[i].ev = StageOrder[i]

\* C7 as stated: the stages run in the one fixed order, and a stage runs
\* only after the stage before it succeeded (a subprocess succeeds when it
\* exits with status 0).
C7_StagesInOrderEachAfterSuccess ==
    /\ StagesInOrder
    /\ \A i \in DOMAIN Stages : i < Len(Stages) => Success(Stages[i].status)

(***************************************************************************)
(* Properties of get_module_name, checked under SpecModuleName.            *)
(***************************************************************************)
ModuleNameReturned == call.fn = "get_module_name" /\ ret # Pending

\* the positions of the roots that are a prefix of the test file
MatchingRoots ==
    { k \in DOMAIN call.source_dirs :
        /\ Len(call.source_dirs[k]) <= Len(call.test_file)
        /\ \A j \in DOMAIN call.source_dirs[k] :
              call.source_dirs[k][j] = call.test_file[j] }

\* C8: get_module_name returns a name only when exactly one of the roots is
\* a prefix of the test file; with no such root it panics with the no-match
\* message and with two or more with the ambiguity message.
C8_ExactlyOneMatchingRoot ==
    ModuleNameReturned
        => /\ ret.ok => Cardinality(MatchingRoots) = 1
           /\ Cardinality(MatchingRoots) = 0
                => ret = Panicked("matches no source directory")
           /\ Cardinality(MatchingRoots) >= 2
                => ret = Panicked("2+ matching source dirs")

C8_Witness ==
    /\ ModuleNameReturned
    /\ Len(call.source_dirs) = 2
    /\ call.source_dirs[1] # call.source_dirs[2]
    /\ Cardinality(MatchingRoots) = 2
    /\ Len(call.test_file) > Len(call.source_dirs[1])
    /\ Len(call.test_file) > Len(call.source_dirs[2])
    /\ ret = Panicked("2+ matching source dirs")

StripSuffix(s, suffix) ==
    IF EndsWithSeq(s, suffix) THEN SubSeq(s, 1, Len(s) - Len(suffix)) ELSE s

\* C9 as stated: for a test file whose name ends in ".elm", a returned name
\* is the non-empty sequence of the path segments below a matching root,
\* with the ".elm" suffix removed, joined by ".", and every such segment is
\* an uppercase-initial identifier.
C9_NameIsTheSegmentsBelowTheRoot ==
    (/\ ModuleNameReturned
     /\ ret.ok
     /\ EndsWithSeq(call.test_file[Len(call.test_file)], DotElm))
        => \E k \in MatchingRoots :
              LET below == strip_prefix(call.test_file, call.source_dirs[k])
                  segments == [i \in DOMAIN below |->
                                  StripSuffix(below[i], DotElm)]
              IN  /\ below # <<>>
                  /\ \A i \in DOMAIN segments : is_upper_name(segments[i])
                  /\ ret.value = Join(segments, Dot)

(***************************************************************************)
(* Properties of add_kernel_test_checking, checked under SpecPatch.        *)
(***************************************************************************)
PatchReturned == call.fn = "add_kernel_test_checking" /\ ret.ok

\* the constructor definitions of a text
VariantDefinitions(t) == {i \in DOMAIN t : MatchVariantAt(t, i) > 0}

\* the constructor definitions of a text that carry the hidden field
TaggedDefinitions(t) ==
    { i \in VariantDefinitions(t) :
        /\ Tok(t, MatchVariantAt(t, i) + 1) = SP
        /\ Tok(t, MatchVariantAt(t, i) + 2) = TagField }

Occurrences(t, token) == {i \in DOMAIN t : t[i] = token}

\* C10: for an input with n matching constructor definitions, the output
\* has n constructor definitions, every one of them with the hidden field
\* right behind it, and the hidden field stands nowhere else.
C10_EveryVariantDefinitionTagged ==
    PatchReturned
        => LET n == Cardinality(VariantDefinitions(call.elm_js))
           IN  /\ Cardinality(VariantDefinitions(ret.value)) = n
               /\ Cardinality(TaggedDefinitions(ret.value)) = n
               /\ Cardinality(Occurrences(ret.value, TagField)) = n

C10_Witness ==
    /\ PatchReturned
    /\ Cardinality(VariantDefinitions(call.elm_js)) = 3
    /\ Cardinality(TaggedDefinitions(ret.value)) = 3

(***************************************************************************)
(* add_kernel_test_checking applied to its own result: the text that main  *)
(* writes back to Runner.elm.js is read and patched once more.             *)
(***************************************************************************)
ReapplyAddKernelTestChecking ==
    /\ call.fn = "add_kernel_test_checking"
    /\ ret.ok
    /\ call' = [fn |-> "add_kernel_test_checking (again)",
                elm_js |-> ret.value]
    /\ ret' = Returned(add_kernel_test_checking(ret.value))
    /\ UNCHANGED pipeline_vars

NextPatchTwice == CallAddKernelTestChecking \/ ReapplyAddKernelTestChecking

SpecPatchTwice == InitPatch /\ [][NextPatchTwice]_vars

PatchReturnedAgain == call.fn = "add_kernel_test_checking (again)" /\ ret.ok

\* C11 as stated: a text returned by add_kernel_test_checking holds at most
\* one token-allocation line, also when the input was itself a result of
\* add_kernel_test_checking.
C11_AtMostOneTokenAllocation ==
    (PatchReturned \/ PatchReturnedAgain)
        => Cardinality(Occurrences(ret.value, TokenAllocation)) <= 1

\* the placeholder definitions of a text
CheckDefinitions(t) == {i \in DOMAIN t : MatchCheckAt(t, i)[2] > 0}

\* C12: for an input with k >= 1 placeholder definitions, the output holds
\* the token-checking function once, in the place of the first of them, and
\* the other k - 1 placeholder definitions still stand, all of them behind
\* it; for an input with none the function is nowhere in the output.
C12_OnlyFirstPlaceholderReplaced ==
    PatchReturned
        => LET k == Cardinality(CheckDefinitions(call.elm_js))
               replaced == Occurrences(ret.value, CheckFunction)
               first == CHOOSE i \in CheckDefinitions(call.elm_js) :
                           \A j \in CheckDefinitions(call.elm_js) : i <= j
               \* the tokens in front of the first placeholder definition
               \* grow by the fields of the constructors among them
               before == tag_test_variants(SubSeq(call.elm_js, 1, first - 1))
               \* "var" up to the name of the definition is kept
               kept == MatchCheckAt(call.elm_js, first)[1] - first + 1
           IN  IF k = 0
               THEN replaced = {} /\ CheckDefinitions(ret.value) = {}
               ELSE /\ Cardinality(replaced) = 1
                    /\ Cardinality(CheckDefinitions(ret.value)) = k - 1
                    /\ \A r \in replaced :
                          /\ r = 2 + Len(before) + kept + Len(CheckSeq)
                          /\ \A i \in CheckDefinitions(ret.value) : i > r

C12_Witness ==
    /\ PatchReturned
    /\ Cardinality(CheckDefinitions(call.elm_js)) = 3
    /\ Cardinality(CheckDefinitions(ret.value)) = 2
    /\ Cardinality(Occurrences(ret.value, CheckFunction)) = 1

(***************************************************************************)
(* Further properties of the pipeline, checked under Spec.                 *)
(***************************************************************************)
RunnerJs == "js/Runner.elm.js"

\* C13: the patch step of main ends in a panic only when Runner.elm.js
\* cannot be read or written; otherwise it writes the patched text back and
\* main goes on to generate node_runner.js.  The text written starts with
\* the token-allocation line; the rest is the text read when neither
\* pattern matched in it, holds no hidden field when the constructor
\* pattern did not match, and no token-checking function when the
\* placeholder pattern did not match.
C13_NoMatchIsNoError ==
    [][pc = "patch"
         => \/ /\ pc' = "done"
               /\ outcome' \in {Panic("Cannot read newly created elm.js file"),
                                Panic("Cannot write updated elm.js file")}
               /\ generated' = generated
            \/ /\ pc' = "node_runner"
               /\ outcome' = Running
               /\ DOMAIN generated' = DOMAIN generated
               /\ LET read == generated[RunnerJs]
                      written == generated'[RunnerJs]
                      rest == SubSeq(written, 3, Len(written))
                      \* where the first placeholder definition starts
                      check == IF CheckDefinitions(read) = {}
                               THEN Len(read) + 1
                               ELSE CHOOSE i \in CheckDefinitions(read) :
                                       \A j \in CheckDefinitions(read) : i <= j
                  IN  /\ Len(written) >= 2
                      /\ SubSeq(written, 1, 2) = <<TokenAllocation, NL>>
                      /\ (VariantDefinitions(read) = {}
                          /\ CheckDefinitions(read) = {}) => rest = read
                      /\ VariantDefinitions(read) = {}
                           => /\ Occurrences(written, TagField) = {}
                              /\ Len(rest) >= check - 1
                              /\ SubSeq(rest, 1, check - 1)
                                   = SubSeq(read, 1, check - 1)
                      /\ CheckDefinitions(read) = {}
                           => /\ Occurrences(written, CheckFunction) = {}
                              /\ Cardinality(TaggedDefinitions(written))
                                   = Cardinality(VariantDefinitions(read))]_vars

\* the supervisor was spawned on a Runner.elm.js in which neither pattern
\* matched
C13_Witness ==
    /\ Happened("spawn node")
    /\ RunnerJs \in DOMAIN generated
    /\ generated[RunnerJs] = <<TokenAllocation, NL>> \o ChunkStatement

\* C14: the standard input of the supervisor never holds anything but the
\* first bytes of one line, the path of the generated node_runner.js
\* followed by a newline; once main is at wait_child, and ever after, it
\* holds exactly that line.
C14_OneLineOnStdin ==
    /\ supervisor.stdin \in { <<>>, <<node_runner_path>>,
                              <<node_runner_path, NL>> }
    /\ supervisor.stdin # <<>>
         => /\ Happened("spawn node")
            /\ "js/node_runner.js" \in DOMAIN generated
    /\ (pc \in {"try_wait", "wait", "exit"} \/ Waited)
         => supervisor.stdin = <<node_runner_path, NL>>

C14_Witness ==
    /\ Terminated
    /\ Happened("wait_child")
    /\ supervisor.stdin = <<node_runner_path, NL>>
    /\ Len(SelectSeq(supervisor.stdin, LAMBDA b : b = NL)) = 1

ElmJsonWriteEvents == {"write elm.json (draft)", "write elm.json (solved)"}

\* the positions in the log where the generated elm.json was written
ElmJsonWrites == {i \in DOMAIN log : log[i].ev \in ElmJsonWriteEvents}

\* C15: the generated elm.json is never written more than twice, and once
\* the first compile pass has been started it was written exactly twice:
\* once before the solver was spawned and once after it, the solver's
\* output having parsed.  The second content is the first with its
\* dependencies replaced by the parsed output of the solver, it is what the
\* file holds, and the other fields are those of the first.
C15_ElmJsonWrittenTwice ==
    /\ Cardinality(ElmJsonWrites) <= 2
    /\ Happened("spawn compiler (tests)")
         => \E d, s, w \in DOMAIN log :
               /\ d < s
               /\ s < w
               /\ ElmJsonWrites = {d, w}
               /\ {i \in DOMAIN log : log[i].ev = "spawn elm-json"} = {s}
               /\ \A i \in DOMAIN log : log[i].ev \in CompileEvents => w < i
               /\ parse_dependencies(output.value.stdout).some
               /\ log[w].content.dependencies =
                     parse_dependencies(output.value.stdout).value
               /\ log[w].content.source_directories =
                     log[d].content.source_directories
               /\ log[w].content.elm_version = log[d].content.elm_version
               /\ DOMAIN log[w].content = DOMAIN log[d].content
               /\ generated["elm.json"] = log[w].content

C15_Witness ==
    /\ Happened("spawn compiler (tests)")
    /\ Cardinality(ElmJsonWrites) = 2
    /\ \E d, w \in ElmJsonWrites :
          /\ d < w
          /\ log[d].content.dependencies # log[w].content.dependencies
          /\ log[w].content.dependencies = "solved"
          /\ Len(log[w].content.source_directories) = 4

\* the files on disk that a pattern of this run matches
Discovered ==
    LET module_globs == module_globs_of(options.files)
    IN  {f \in disk : \E i \in DOMAIN module_globs :
                         GlobMatches(module_globs[i], f)}

\* C16: the discovered paths hold no path twice; once discovery is over
\* they are the files on disk that some pattern matches, each once, and
\* they are what the first compile pass and the parser are given: the
\* parser returns one entry for each of them.
C16_EachTestFileOnce ==
    /\ \A i, j \in DOMAIN module_paths :
          module_paths[i] = module_paths[j] => i = j
    /\ Range(module_paths) \subseteq Discovered
    /\ log # <<>> => Range(module_paths) = Discovered
    /\ Happened("all_tests")
         => /\ Len(all_modules_and_tests) = Cardinality(Discovered)
            /\ \A f \in Discovered :
                  Cardinality({i \in DOMAIN all_modules_and_tests :
                                  all_modules_and_tests[i].path = f}) = 1

\* the default patterns, both of which match tests/A.elm
C16_Witness ==
    /\ options.files = <<>>
    /\ FileA \in disk
    /\ Happened("all_tests")
    /\ Len(expanded_globs(module_globs_of(options.files), disk))
         > Len(module_paths)
    /\ Len(SelectSeq(module_paths, LAMBDA f : f = FileA)) = 1

RunnerElm == "src/Runner.elm"

\* C17: the generated Runner.elm holds one import line and one group for
\* every entry the parser returned, in the parser's order; the group of a
\* module carries the name its import line imports, and lists one
\* "check <name>.<test>" expression for every test identifier of the
\* module, in the parser's order.
C17_OneImportAndOneGroupPerModule ==
    RunnerElm \in DOMAIN generated
        => LET runner == generated[RunnerElm]
               modules == all_modules_and_tests
           IN  /\ Len(runner.user_imports) = Len(modules)
               /\ Len(runner.tests) = Len(modules)
               /\ \A i \in DOMAIN modules :
                     LET group == runner.tests[i]
                     IN  /\ runner.user_imports[i] = <<"import", group.module_>>
                         /\ group.module_ # <<>>
                         /\ Len(group.maybeTests) = Len(modules[i].tests)
                         /\ \A j \in DOMAIN modules[i].tests :
                               group.maybeTests[j] =
                                  <<"check", group.module_, modules[i].tests[j]>>

\* one module, tests/A.elm, with two tests
C17_Witness ==
    /\ RunnerElm \in DOMAIN generated
    /\ Len(all_modules_and_tests) = 1
    /\ all_modules_and_tests[1] = [path |-> FileA, tests |-> <<"suite", "fuzz">>]
    /\ generated[RunnerElm].user_imports = << <<"import", <<"A">>>> >>
    /\ Len(generated[RunnerElm].tests) = 1
    /\ generated[RunnerElm].tests[1].maybeTests =
          << <<"check", <<"A">>, "suite">>, <<"check", <<"A">>, "fuzz">> >>

\* how often an effect is in the log
Count(name) == Cardinality({i \in DOMAIN log : log[i].ev = name})

\* no subprocess of the pipeline is spawned twice: the solver, each of the
\* three compile passes and the supervisor are in the log at most once
SpawnedAtMostOnce == \A name \in SpawnEvents : Count(name) <= 1

\* a subprocess that was run and did not succeed
FailedAt(i) ==
    /\ log[i].ev \in {"spawn elm-json"} \cup CompileEvents
    /\ ~Success(log[i].status)

\* C18 as stated: the solver, each compile pass and the supervisor are
\* spawned at most once, and a subprocess that did not exit with success is
\* the last effect of the run: nothing is run again and nothing is run
\* after it.
C18_NoRetryNothingAfterFailure ==
    /\ SpawnedAtMostOnce
    /\ \A i \in DOMAIN log : FailedAt(i) => i = Len(log)

(***************************************************************************)
(* The pipeline under fairness.  main is one sequential thread: a step     *)
(* that is not a blocking wait is taken once main is at it (the solver and *)
(* the compiler are run to their end inside one step).  The supervisor     *)
(* child ends by itself, and Child::wait returns once it has ended.  No    *)
(* fairness is asked of the error return of Child::wait.                   *)
(***************************************************************************)
MainStep ==
    \/ HelpOrVersion
    \/ ElmProjectRoot
    \/ ValidateReporter
    \/ ModulePaths
    \/ ReadElmJson
    \/ TestDirectories
    \/ WriteDraftElmJson
    \/ ElmJsonSolve
    \/ SolvedDependencies
    \/ WriteSolvedElmJson
    \/ CompileTests
    \/ AllTests
    \/ CreateRunner
    \/ CompileRunner
    \/ PatchRunner
    \/ CreateNodeRunner
    \/ CompileReporter
    \/ CreateNodeSupervisor
    \/ SpawnSupervisor
    \/ Writeln
    \/ TryWait
    \/ ProcessExit

SpecFair ==
    /\ Spec
    /\ WF_vars(MainStep)
    /\ WF_vars(WaitReturns)
    /\ WF_vars(SupervisorExits)

\* C19: every run of the pipeline ends, and from any state in which the
\* supervisor child has ended the process ends, whether the child had ended
\* before try_wait or ends while main is in wait.
C19_ProcessEventuallyExits ==
    /\ <>Terminated
    /\ (supervisor.state = "exited") ~> Terminated

\* the child has ended, wait_child has returned its status and the process
\* has ended with the child's code
C19_Witness ==
    /\ Terminated
    /\ Happened("wait_child")
    /\ supervisor.state = "exited"
    /\ outcome = Exited(0)

\* the roots of this run that are a prefix of a file
RootsOf(file) ==
    {k \in DOMAIN test_directories : starts_with(file, test_directories[k])}

Ambiguous(file) == Cardinality(RootsOf(file)) >= 2

\* C20: the roots used to name the modules are the host's source
\* directories, in their order, followed by tests/, also when the host lists
\* tests/ or a directory below it.  When the host lists tests/, every
\* discovered file below tests/ has two or more roots.  When the parser
\* returned a module with two or more roots, the run ends in a panic before
\* Runner.elm is written and with nothing run after the parser; the panic
\* is the ambiguity error unless a module before it could not be named, and
\* it is the ambiguity error when every module has two or more roots.
C20_TestsRootAppendedWithoutDeduplication ==
    /\ test_directories # <<>>
         => /\ Len(test_directories) = Len(source_directories) + 1
            /\ \A i \in DOMAIN source_directories :
                  test_directories[i] = ProjectRoot \o source_directories[i]
            /\ test_directories[Len(test_directories)]
                 = ProjectRoot \o <<TestsDir>>
            /\ <<TestsDir>> \in Range(source_directories)
                 => \A i \in DOMAIN module_paths :
                       starts_with(module_paths[i], ProjectRoot \o <<TestsDir>>)
                         => Ambiguous(module_paths[i])
    /\ (/\ Happened("all_tests")
        /\ pc # "runner"
        /\ \E i \in DOMAIN all_modules_and_tests :
              Ambiguous(all_modules_and_tests[i].path))
         => /\ Terminated
            /\ outcome \in {Panic("2+ matching source dirs"),
                            Panic("assertion failed: is_upper_name")}
            /\ (\A i \in DOMAIN all_modules_and_tests :
                   Ambiguous(all_modules_and_tests[i].path))
                 => outcome = Panic("2+ matching source dirs")
            /\ RunnerElm \notin DOMAIN generated
            /\ log[Len(log)].ev = "all_tests"
            /\ supervisor.state = "none"

\* the host lists tests/ itself
C20_Witness ==
    /\ source_directories = << <<SrcDir>>, <<TestsDir>> >>
    /\ test_directories =
          << ProjectRoot \o <<SrcDir>>, ProjectRoot \o <<TestsDir>>,
             ProjectRoot \o <<TestsDir>> >>
    /\ FileA \in Range(module_paths)
    /\ Happened("all_tests")
    /\ Terminated
    /\ outcome = Panic("2+ matching source dirs")
    /\ RunnerElm \notin DOMAIN generated

\* the host lists a directory below tests/
C20_WitnessNested ==
    /\ source_directories = << <<SrcDir>>, <<TestsDir, SubDir>> >>
    /\ module_paths = <<FileB>>
    /\ Happened("all_tests")
    /\ Terminated
    /\ outcome = Panic("2+ matching source dirs")

====
